---- MODULE Spec2Model ----
(***************************************************************************)
(* Model of the asynchronous task-dispatch engine of k2basecamp:           *)
(*   MotionControllerThread  (services/motion_controller_thread.py)        *)
(*   MotionControllerService (services/motion_controller_service.py)       *)
(* The worker thread, the submitting contexts, the context that calls the  *)
(* service's stop operation and the event loop that delivers the queued    *)
(* task_completed signal are interleaved at the granularity of their       *)
(* accesses to shared state (the queue, the __running flag, the signals).  *)
(* Wall-clock fields of the report (timestamp, duration) are not modelled. *)
(***************************************************************************)
EXTENDS Integers, Sequences, FiniteSets, TLC

\* ---- bounds of the model -------------------------------------------------
MaxTasks == 3        \* tasks enqueued by Service.run
MaxStops == 2        \* calls of stop_motion_controller_thread
MaxPollers == 3      \* PollerThread instances created
MaxWrapCalls == 2    \* calls of operations declared with @run_on_thread
MaxFairTasks == 2    \* tasks enqueued in the runs checked for liveness
MaxDriveTasks == 2   \* tasks enqueued with Drive values among the arguments

\* ---- values --------------------------------------------------------------
None == "None"

\* exception classes and their base classes (Python / ingenialink hierarchy)
Base(e) ==
    CASE e = "ConnectionResetError" -> "ConnectionError"
      [] e = "ConnectionError"      -> "OSError"
      [] e = "FileNotFoundError"    -> "OSError"
      [] e = "KeyError"             -> "LookupError"
      [] OTHER                      -> "Exception"

RECURSIVE IsInstance(_, _)
IsInstance(e, cls) ==
    IF e = cls THEN TRUE
    ELSE IF e = "Exception" THEN FALSE
    ELSE IsInstance(Base(e), cls)

\* the except clause of MotionControllerThread.run
CaughtClasses ==
    {"IMException", "ILError", "ValueError", "KeyError",
     "FileNotFoundError", "ConnectionError"}

\* variant of IsCaught: ILError is missing from the except clause
IsCaught_NoILError(e) ==
    \E cls \in CaughtClasses \ {"ILError"} : IsInstance(e, cls)

\* variant of IsCaught: the except clause names OSError
IsCaught_OSError(e) ==
    \E cls \in CaughtClasses \cup {"OSError"} : IsInstance(e, cls)

IsCaught(e) == \E cls \in CaughtClasses : IsInstance(e, cls)

\* what an action can do when it is invoked: return a value or raise
ReturnValues == {"42", None}
Raisable == {"ILError", "OSError"}

Returned(v) == [kind |-> "return", value |-> v, exc |-> None]
Raised(e) == [kind |-> "raise", value |-> None, exc |-> e]

\* a callable runs as a black box; calling anything else raises TypeError
Outcomes(action) ==
    IF action.callable
    THEN {Returned(v) : v \in ReturnValues} \cup {Raised(e) : e \in Raisable}
    ELSE {Raised("TypeError")}

\* ---- the command object (MotionController) and symbolic commands ---------
McAttrs == [communication |-> {"get_register"}, motion |-> {"motor_enable"}]

\* commands passed to Service.run: a callable, or a str already split at "."
CallableCommand == [str |-> FALSE, parts |-> <<>>, name |-> "on_thread"]
StrCommand(parts) == [str |-> TRUE, parts |-> parts, name |-> None]
Commands ==
    {CallableCommand,
     StrCommand(<<"communication", "get_register">>),
     StrCommand(<<"bogus", "get_register">>),
     StrCommand(<<"motion", "bogus">>),
     StrCommand(<<"motion">>)}

\* Service.run, lines 69-74: the method to enqueue, or the exception raised
Resolve(command) ==
    IF command.str
    THEN IF Len(command.parts) # 2
         THEN [ok |-> FALSE, exc |-> "ValueError", method |-> None]
         ELSE IF command.parts[1] \notin DOMAIN McAttrs
         THEN [ok |-> FALSE, exc |-> "AttributeError", method |-> None]
         ELSE IF command.parts[2] \notin McAttrs[command.parts[1]]
         THEN [ok |-> FALSE, exc |-> "AttributeError", method |-> None]
         ELSE [ok |-> TRUE, exc |-> None,
               method |-> [callable |-> TRUE, name |-> command.parts[2]]]
    ELSE [ok |-> TRUE, exc |-> None,
          method |-> [callable |-> TRUE, name |-> command.name]]

\* ---- tasks and reports ---------------------------------------------------
Drives == {"Drive.Left", "Drive.Right"}

\* report callbacks: a function / bound method, or a functools.partial of one
Function(q) == [partial |-> FALSE, qualname |-> q, func |-> None]
Partial(q) == [partial |-> TRUE, qualname |-> None, func |-> q]
Callbacks == {Function("Controller.on_done")}
NoCallback == [partial |-> FALSE, qualname |-> None, func |-> None]
NoAction == [callable |-> FALSE, name |-> None]

\* positional and keyword arguments given to Service.run
ArgLists == {<<>>}
NoKwargs == <<>>
KwargLists == {NoKwargs}

\* calls of run() whose arguments hold Drive members and other values, in
\* several orders; a keyword argument is a <<name, value>> pair
DriveCalls ==
    {[args |-> <<>>, kwargs |-> NoKwargs],
     [args |-> <<"7">>, kwargs |-> << <<"drive", "Drive.Right">> >>],
     [args |-> <<"Drive.Left">>, kwargs |-> NoKwargs],
     [args |-> <<"7", "Drive.Right", "Drive.Left">>, kwargs |-> NoKwargs],
     [args |-> <<"Drive.Left", "7", "Drive.Right">>, kwargs |-> NoKwargs]}

\* utils.types.motion_controller_task; id is the position in submission order
motion_controller_task(id, action, callback, args, kwargs) ==
    [id |-> id, action |-> action, callback |-> callback, args |-> args,
     kwargs |-> kwargs]

\* the item stop() puts on the queue (None)
NoneItem == motion_controller_task(0, NoAction, NoCallback, <<>>, NoKwargs)

\* run(), lines 80-83
FuncName(callback) ==
    IF callback.partial THEN callback.func ELSE callback.qualname

\* variant of the loop of lines 86-89 without its break: the last match wins
RECURSIVE LastDrive(_)
LastDrive(args) ==
    IF args = <<>> THEN None
    ELSE IF args[Len(args)] \in Drives THEN args[Len(args)]
    ELSE LastDrive(SubSeq(args, 1, Len(args) - 1))

\* run(), lines 84-89
RECURSIVE FirstDrive(_)
FirstDrive(args) ==
    IF args = <<>> THEN None
    ELSE IF Head(args) \in Drives THEN Head(args)
    ELSE FirstDrive(Tail(args))

\* utils.types.thread_report as built at lines 90-97
thread_report(drive, func_name, output, raised_exception) ==
    [drive |-> drive, method |-> func_name, output |-> output,
     exception |-> raised_exception]

\* ---- operations declared with @run_on_thread ------------------------------
\* the inner function returned by the decorated method op
Closure(op) == [str |-> FALSE, parts |-> <<>>, name |-> op]

\* calls op(report_callback, *rest, **kwargs) of decorated methods; the
\* positional arguments of the call are <<report_callback>> \o rest
WrapCalls ==
    {[op |-> "emergency_stop", rest |-> <<>>],
     [op |-> "enable_motor", rest |-> <<"Drive.Left">>]}
WrapKwargs == {NoKwargs, <<"servo">>}
NoWrapCall ==
    [op |-> None, callback |-> NoCallback, rest |-> <<>>, kwargs |-> NoKwargs]

\* ---- pollers --------------------------------------------------------------
\* drive aliases (Drive.Left.name, Drive.Right.name)
Aliases == {"Left", "Right"}

\* a PollerThread as constructed by create_poller_thread: not started yet
PollerThread(alias) == [alias |-> alias, state |-> "created"]

\* PollerThread.isRunning(), PollerThread.start() and PollerThread.stop()
isRunning(poller) == poller.state = "running"
PollerStarted(poller) == [poller EXCEPT !.state = "running"]
PollerStopped(poller) == [poller EXCEPT !.state = "stopped"]

\* ---- state ---------------------------------------------------------------
VARIABLES
    running,        \* MotionControllerThread.__running
    queue,          \* MotionControllerThread.queue: tasks and None
    wpc,            \* position of the worker thread in run()
    task,           \* run(): local variable task
    spc,            \* position of the caller of stop_motion_controller_thread
    emitted,        \* history: events emitted on both signals, in order
    pending,        \* queued task_completed events awaiting the service's loop
    called,         \* history: invocations callback(report)
    nextId,         \* history: number of tasks enqueued so far, plus one
    started,        \* history: ids of the tasks whose action was invoked
    results,        \* history: what each invoked action did
    exitCause,      \* history: why run() ended
    stopCalls,      \* history: calls of the stop operation
    firstStopAt,    \* history: nextId at the first call of stop, 0 before it
    stopDuring,     \* history: id of the task that was executing at a call
                    \*          of stop, 0 if no call came during an execution
    stopsReturned,  \* history: calls of the stop operation that returned
    sentinelAt,     \* history: nextId when the first None was enqueued
    raisedAt,       \* history: nextId when Service.run first raised, else 0
    gpc,            \* position of the caller of get_interface_name_list
    pollers,        \* the PollerThread instances created so far
    registry,       \* MotionControllerService.__poller_threads
    lastStop,       \* history: the latest call of stop_poller_thread
    lastWrap        \* history: the latest call of a run_on_thread operation

vars == <<running, queue, wpc, task, spc, emitted, pending, called, nextId,
          started, results, exitCause, stopCalls, firstStopAt, stopDuring,
          stopsReturned, sentinelAt, raisedAt, gpc, pollers, registry,
          lastStop, lastWrap>>

regVars == <<gpc, pollers, registry, lastStop>>
auxVars == <<gpc, pollers, registry, lastStop, lastWrap>>
workerVars == <<wpc, task, emitted, pending, started, results, exitCause>>
stopVars == <<spc, stopCalls, firstStopAt, stopDuring, stopsReturned,
              sentinelAt>>

\* state after MotionControllerService.__init__: the thread has been started
\* and run() has not executed its first statement yet
Init ==
    /\ running = FALSE
    /\ queue = <<>>
    /\ wpc = "Idle"
    /\ task = NoneItem
    /\ spc = "none"
    /\ emitted = <<>>
    /\ pending = <<>>
    /\ called = <<>>
    /\ nextId = 1
    /\ started = <<>>
    /\ results = <<>>
    /\ exitCause = None
    /\ stopCalls = 0
    /\ firstStopAt = 0
    /\ stopDuring = 0
    /\ stopsReturned = 0
    /\ sentinelAt = 0
    /\ raisedAt = 0
    /\ gpc = "none"
    /\ pollers = <<>>
    /\ registry = [alias \in Aliases |-> 0]
    /\ lastStop = [alias |-> None, raised |-> None, flip |-> FALSE]
    /\ lastWrap = NoWrapCall

\* variant of Run: the command is resolved by the worker, not by the caller
Run_ResolveLater(report_callback, command, args, kwargs) ==
    LET r == Resolve(command) IN
    /\ nextId <= MaxTasks
    /\ queue' = Append(queue,
           motion_controller_task(nextId,
               IF r.ok THEN r.method ELSE NoAction, report_callback, args,
               kwargs))
    /\ nextId' = nextId + 1
    /\ UNCHANGED <<running, workerVars, called, stopVars, raisedAt, regVars>>

\* variant of Run: the queue holds one item at most (Queue(maxsize=1)), and
\* put() waits for room
Run_BoundedQueue(report_callback, command, args, kwargs) ==
    LET r == Resolve(command) IN
    /\ r.ok
    /\ nextId <= MaxTasks
    /\ Len(queue) < 1
    /\ queue' = Append(queue,
           motion_controller_task(nextId, r.method, report_callback, args,
                                  kwargs))
    /\ nextId' = nextId + 1
    /\ UNCHANGED <<running, workerVars, called, stopVars, raisedAt, regVars>>

\* ---- MotionControllerService.run -----------------------------------------
Run(report_callback, command, args, kwargs) ==
    LET r == Resolve(command) IN
    IF r.ok
    THEN /\ nextId <= MaxTasks
         /\ queue' = Append(queue,
                motion_controller_task(nextId, r.method, report_callback, args,
                                       kwargs))
         /\ nextId' = nextId + 1
         /\ UNCHANGED <<running, workerVars, called, stopVars, raisedAt,
                        regVars>>
    ELSE \* r.exc propagates to the caller of run(); nothing is enqueued
         \* (the first such call is recorded; later ones change nothing)
         /\ raisedAt = 0
         /\ raisedAt' = nextId
         /\ UNCHANGED <<running, queue, workerVars, called, nextId, stopVars,
                        regVars>>

\* variant of wrap: the keyword arguments are not forwarded to run()
wrap_DropKwargs(op, report_callback, rest, kwargs) ==
    LET args == <<report_callback>> \o rest
        on_thread == Closure(op)
    IN  /\ nextId <= MaxWrapCalls
        /\ Run(Head(args), on_thread, Tail(args), NoKwargs)
        /\ lastWrap' = [op |-> op, callback |-> report_callback,
                        rest |-> rest, kwargs |-> kwargs]

\* ---- MotionControllerService.run_on_thread -------------------------------
\* wrap, lines 114-116: func returns the inner function without calling it,
\* and run() enqueues it with args[0] as callback and args[1:] as arguments
wrap(op, report_callback, rest, kwargs) ==
    LET args == <<report_callback>> \o rest
        on_thread == Closure(op)
    IN  /\ nextId <= MaxWrapCalls
        /\ Run(Head(args), on_thread, Tail(args), kwargs)
        /\ lastWrap' = [op |-> op, callback |-> report_callback,
                        rest |-> rest, kwargs |-> kwargs]

\* ---- MotionControllerThread.run ------------------------------------------
\* line 60
WStart ==
    /\ wpc = "Idle"
    /\ running' = TRUE
    /\ wpc' = "Check"
    /\ UNCHANGED <<queue, task, spc, emitted, pending, called, nextId,
                   started, results, exitCause, stopCalls, firstStopAt,
                   stopDuring, stopsReturned, sentinelAt, raisedAt, auxVars>>

\* variant of WCheck: the loop never tests __running (while True)
WCheck_IgnoreFlag ==
    /\ wpc = "Check"
    /\ wpc' = "Get"
    /\ UNCHANGED <<running, queue, task, spc, emitted, pending, called,
                   nextId, started, results, exitCause, stopCalls,
                   firstStopAt, stopDuring, stopsReturned, sentinelAt,
                   raisedAt, auxVars>>

\* line 61: the while test
WCheck ==
    /\ wpc = "Check"
    /\ IF running
       THEN wpc' = "Get" /\ UNCHANGED exitCause
       ELSE wpc' = "Stopped" /\ exitCause' = "flag"
    /\ UNCHANGED <<running, queue, task, spc, emitted, pending, called,
                   nextId, started, results, stopCalls, firstStopAt,
                   stopDuring, stopsReturned, sentinelAt, raisedAt, auxVars>>

\* variant of WGet: a None is skipped (continue) instead of ending the loop
WGet_SkipNone ==
    /\ wpc = "Get"
    /\ queue # <<>>
    /\ queue' = Tail(queue)
    /\ IF Head(queue).id = 0
       THEN /\ wpc' = "Check"
            /\ UNCHANGED <<task, started>>
       ELSE /\ wpc' = "Exec"
            /\ task' = Head(queue)
            /\ started' = Append(started, Head(queue).id)
    /\ UNCHANGED <<running, spc, emitted, pending, called, nextId, results,
                   exitCause, stopCalls, firstStopAt, stopDuring,
                   stopsReturned, sentinelAt, raisedAt, auxVars>>

\* variant of WGet: the newest item is taken first (a LIFO queue)
WGet_Lifo ==
    /\ wpc = "Get"
    /\ queue # <<>>
    /\ queue' = SubSeq(queue, 1, Len(queue) - 1)
    /\ IF queue[Len(queue)].id = 0
       THEN /\ wpc' = "Stopped"
            /\ exitCause' = "sentinel"
            /\ UNCHANGED <<task, started>>
       ELSE /\ wpc' = "Exec"
            /\ task' = queue[Len(queue)]
            /\ started' = Append(started, queue[Len(queue)].id)
            /\ UNCHANGED exitCause
    /\ UNCHANGED <<running, spc, emitted, pending, called, nextId, results,
                   stopCalls, firstStopAt, stopDuring, stopsReturned,
                   sentinelAt, raisedAt, auxVars>>

\* variant of WGet: a second worker thread takes tasks from the same queue
\* while the first one is inside an action
WGet_SecondWorker ==
    /\ wpc \in {"Get", "Exec"}
    /\ queue # <<>>
    /\ queue' = Tail(queue)
    /\ IF Head(queue).id = 0
       THEN /\ wpc' = "Stopped"
            /\ exitCause' = "sentinel"
            /\ UNCHANGED <<task, started>>
       ELSE /\ wpc' = "Exec"
            /\ task' = Head(queue)
            /\ started' = Append(started, Head(queue).id)
            /\ UNCHANGED exitCause
    /\ UNCHANGED <<running, spc, emitted, pending, called, nextId, results,
                   stopCalls, firstStopAt, stopDuring, stopsReturned,
                   sentinelAt, raisedAt, auxVars>>

\* lines 62-69: blocking get, the None test, and the call of the action
WGet ==
    /\ wpc = "Get"
    /\ queue # <<>>
    /\ queue' = Tail(queue)
    /\ IF Head(queue).id = 0
       THEN /\ wpc' = "Stopped"
            /\ exitCause' = "sentinel"
            /\ UNCHANGED <<task, started>>
       ELSE /\ wpc' = "Exec"
            /\ task' = Head(queue)
            /\ started' = Append(started, Head(queue).id)
            /\ UNCHANGED exitCause
    /\ UNCHANGED <<running, spc, emitted, pending, called, nextId, results,
                   stopCalls, firstStopAt, stopDuring, stopsReturned,
                   sentinelAt, raisedAt, auxVars>>

\* variant of BuildReport: the output of the action is dropped
BuildReport_NoOutput(t, output, raised_exception) ==
    thread_report(FirstDrive(t.args), FuncName(t.callback), None,
                  raised_exception)

\* variant of BuildReport: the Drive reported is the last one among the args
BuildReport_LastDrive(t, output, raised_exception) ==
    thread_report(LastDrive(t.args), FuncName(t.callback), output,
                  raised_exception)

\* lines 80-97: the report of a task
BuildReport(t, output, raised_exception) ==
    thread_report(FirstDrive(t.args), FuncName(t.callback), output,
                  raised_exception)

\* variant of EmitReport: task_completed is emitted whatever the outcome
EmitReport_AlwaysCompleted(t, report) ==
    /\ emitted' = Append(emitted,
           [id |-> t.id, signal |-> "task_completed",
            callback |-> t.callback, report |-> report])
    /\ pending' = Append(pending,
           [id |-> t.id, callback |-> t.callback, report |-> report])
    /\ UNCHANGED called

\* variant of EmitReport: a direct connection, the slot and with it the
\* callback run inside emit(), on the worker thread
EmitReport_DirectConnection(t, report) ==
    IF report.exception = None
    THEN /\ emitted' = Append(emitted,
                [id |-> t.id, signal |-> "task_completed",
                 callback |-> t.callback, report |-> report])
         /\ called' = Append(called,
                [id |-> t.id, thread |-> "worker", callback |-> t.callback,
                 arg |-> report])
         /\ UNCHANGED pending
    ELSE /\ emitted' = Append(emitted,
                [id |-> t.id, signal |-> "task_errored",
                 callback |-> NoCallback, report |-> report])
         /\ UNCHANGED <<pending, called>>

\* lines 98-102: one of the two signals is emitted. The service lives in the
\* thread that constructed it and run() emits from the worker thread, so the
\* connection of task_completed to the execute_callback slot (service.py
\* line 43) is a queued one: the event is posted to the service's event loop
\* and nothing is called here.
EmitReport(t, report) ==
    /\ IF report.exception = None
       THEN /\ emitted' = Append(emitted,
                   [id |-> t.id, signal |-> "task_completed",
                    callback |-> t.callback, report |-> report])
            /\ pending' = Append(pending,
                   [id |-> t.id, callback |-> t.callback, report |-> report])
       ELSE /\ emitted' = Append(emitted,
                   [id |-> t.id, signal |-> "task_errored",
                    callback |-> NoCallback, report |-> report])
            /\ UNCHANGED pending
    /\ UNCHANGED called

\* lines 69-103: the action returns or raises; report; emit
WRun ==
    /\ wpc = "Exec"
    /\ \E o \in Outcomes(task.action) :
        /\ results' = Append(results, [id |-> task.id, outcome |-> o])
        /\ IF o.kind = "raise" /\ ~IsCaught(o.exc)
           THEN \* the exception leaves run(): the thread finishes
                /\ wpc' = "Stopped"
                /\ exitCause' = "fatal"
                /\ UNCHANGED <<emitted, pending, called>>
           ELSE /\ EmitReport(task, BuildReport(task, o.value, o.exc))
                /\ wpc' = "Check"
                /\ UNCHANGED exitCause
    /\ UNCHANGED <<running, queue, task, spc, nextId, started, stopCalls,
                   firstStopAt, stopDuring, stopsReturned, sentinelAt,
                   raisedAt, auxVars>>

\* variant of execute_callback: the delivered event stays queued
execute_callback_Redeliver ==
    /\ pending # <<>>
    /\ called' = Append(called, [id |-> Head(pending).id,
                                 thread |-> "service",
                                 callback |-> Head(pending).callback,
                                 arg |-> Head(pending).report])
    /\ UNCHANGED <<running, queue, wpc, task, spc, emitted, pending, nextId,
                   started, results, exitCause, stopCalls, firstStopAt,
                   stopDuring, stopsReturned, sentinelAt, raisedAt, auxVars>>

\* ---- MotionControllerService.execute_callback ----------------------------
\* slot of the queued task_completed connection, run by the service's loop
execute_callback ==
    /\ pending # <<>>
    /\ called' = Append(called, [id |-> Head(pending).id,
                                 thread |-> "service",
                                 callback |-> Head(pending).callback,
                                 arg |-> Head(pending).report])
    /\ pending' = Tail(pending)
    /\ UNCHANGED <<running, queue, wpc, task, spc, emitted, nextId, started,
                   results, exitCause, stopCalls, firstStopAt, stopDuring,
                   stopsReturned, sentinelAt, raisedAt, auxVars>>

\* variant of StopFlag: stop() ends the thread at once (QThread.terminate)
StopFlag_Terminate ==
    /\ spc = "none"
    /\ stopCalls < MaxStops
    /\ running' = FALSE
    /\ spc' = "put"
    /\ stopCalls' = stopCalls + 1
    /\ firstStopAt' = IF stopCalls = 0 THEN nextId ELSE firstStopAt
    /\ stopDuring' = IF wpc = "Exec" THEN task.id ELSE stopDuring
    /\ wpc' = IF wpc = "Exec" THEN "Stopped" ELSE wpc
    /\ UNCHANGED <<queue, task, emitted, pending, started, results,
                   exitCause, called, nextId, stopsReturned, sentinelAt,
                   raisedAt, auxVars>>

\* ---- MotionControllerService.stop_motion_controller_thread ---------------
\* the call, and MotionControllerThread.stop line 106
StopFlag ==
    /\ spc = "none"
    /\ stopCalls < MaxStops
    /\ running' = FALSE
    /\ spc' = "put"
    /\ stopCalls' = stopCalls + 1
    /\ firstStopAt' = IF stopCalls = 0 THEN nextId ELSE firstStopAt
    /\ stopDuring' = IF wpc = "Exec" THEN task.id ELSE stopDuring
    /\ UNCHANGED <<queue, workerVars, called, nextId, stopsReturned,
                   sentinelAt, raisedAt, auxVars>>

\* variant of StopPut: stop() only clears the flag, no None is queued
StopPut_NoSentinel ==
    /\ spc = "put"
    /\ spc' = "wait"
    /\ sentinelAt' = IF sentinelAt = 0 THEN nextId ELSE sentinelAt
    /\ UNCHANGED <<running, queue, workerVars, called, nextId, stopCalls,
                   firstStopAt, stopDuring, stopsReturned, raisedAt, auxVars>>

\* MotionControllerThread.stop line 107
StopPut ==
    /\ spc = "put"
    /\ queue' = Append(queue, NoneItem)
    /\ spc' = "wait"
    /\ sentinelAt' = IF sentinelAt = 0 THEN nextId ELSE sentinelAt
    /\ UNCHANGED <<running, workerVars, called, nextId, stopCalls,
                   firstStopAt, stopDuring, stopsReturned, raisedAt, auxVars>>

\* variant of StopWait: the stop operation returns without wait()
StopWait_NoJoin ==
    /\ spc = "wait"
    /\ spc' = "none"
    /\ stopsReturned' = stopsReturned + 1
    /\ UNCHANGED <<running, queue, workerVars, called, nextId, stopCalls,
                   firstStopAt, stopDuring, sentinelAt, raisedAt, auxVars>>

\* variant of StopWait: the stop operation waits for the queue to be drained
\* as well (queue.join() next to wait())
StopWait_JoinQueue ==
    /\ spc = "wait"
    /\ wpc = "Stopped"
    /\ queue = <<>>
    /\ spc' = "none"
    /\ stopsReturned' = stopsReturned + 1
    /\ UNCHANGED <<running, queue, workerVars, called, nextId, stopCalls,
                   firstStopAt, stopDuring, sentinelAt, raisedAt, auxVars>>

\* line 384: QThread.wait() returns once run() has ended
StopWait ==
    /\ spc = "wait"
    /\ wpc = "Stopped"
    /\ spc' = "none"
    /\ stopsReturned' = stopsReturned + 1
    /\ UNCHANGED <<running, queue, workerVars, called, nextId, stopCalls,
                   firstStopAt, stopDuring, sentinelAt, raisedAt, auxVars>>

\* ---- MotionControllerService.get_interface_name_list ----------------------
\* the caller enters self.__mc.communication.get_interface_name_list()
GetInterfaceCall ==
    /\ gpc = "none"
    /\ gpc' = "in_call"
    /\ UNCHANGED <<running, queue, workerVars, called, nextId, stopVars,
                   raisedAt, pollers, registry, lastStop,
                   lastWrap>>

\* the call on the command object returns the list to the caller
GetInterfaceReturn ==
    /\ gpc = "in_call"
    /\ gpc' = "none"
    /\ UNCHANGED <<running, queue, workerVars, called, nextId, stopVars,
                   raisedAt, pollers, registry, lastStop,
                   lastWrap>>

\* ---- MotionControllerService: poller threads ------------------------------
\* create_poller_thread, lines 314-322: a new instance replaces the mapping
create_poller_thread(alias) ==
    /\ Len(pollers) < MaxPollers
    /\ pollers' = Append(pollers, PollerThread(alias))
    /\ registry' = [registry EXCEPT ![alias] = Len(pollers) + 1]
    /\ UNCHANGED <<running, queue, workerVars, called, nextId, stopVars,
                   raisedAt, gpc, lastStop, lastWrap>>

\* the holder of the handle returned by create_poller_thread starts it
StartPoller(i) ==
    /\ pollers[i].state = "created"
    /\ pollers' = [pollers EXCEPT ![i] = PollerStarted(pollers[i])]
    /\ UNCHANGED <<running, queue, workerVars, called, nextId, stopVars,
                   raisedAt, gpc, registry, lastStop, lastWrap>>

\* variant of stop_poller_thread: no test `alias in self.__poller_threads`,
\* the lookup of an alias without entry raises KeyError
stop_poller_thread_NoMembershipTest(alias) ==
    /\ IF registry[alias] = 0
       THEN /\ lastStop' = [alias |-> alias, raised |-> "KeyError",
                            flip |-> ~lastStop.flip]
            /\ UNCHANGED pollers
       ELSE /\ lastStop' = [alias |-> alias, raised |-> None,
                            flip |-> ~lastStop.flip]
            /\ IF isRunning(pollers[registry[alias]])
               THEN pollers' = [pollers EXCEPT ![registry[alias]] =
                                   PollerStopped(pollers[registry[alias]])]
               ELSE UNCHANGED pollers
    /\ UNCHANGED <<running, queue, workerVars, called, nextId, stopVars,
                   raisedAt, gpc, registry, lastWrap>>

\* stop_poller_thread, lines 326-327; a call that finds nothing to stop
\* changes nothing of the program's state and raises nothing
stop_poller_thread(alias) ==
    /\ IF registry[alias] # 0 /\ isRunning(pollers[registry[alias]])
       THEN pollers' = [pollers EXCEPT ![registry[alias]] =
                           PollerStopped(pollers[registry[alias]])]
       ELSE UNCHANGED pollers
    /\ lastStop' = [alias |-> alias, raised |-> None, flip |-> ~lastStop.flip]
    /\ UNCHANGED <<running, queue, workerVars, called, nextId, stopVars,
                   raisedAt, gpc, registry, lastWrap>>

\* ---- specifications ------------------------------------------------------
\* the poller registry alone: the contexts that create, start and stop pollers
PollerNext ==
    \/ \E alias \in Aliases : create_poller_thread(alias)
    \/ \E i \in 1..Len(pollers) : StartPoller(i)
    \/ \E alias \in Aliases : stop_poller_thread(alias)

PollerSpec == Init /\ [][PollerNext]_vars

\* calls of decorated operations, the worker thread and the service's loop
WrapCall ==
    \E c \in WrapCalls, cb \in Callbacks, kwargs \in WrapKwargs :
        wrap(c.op, cb, c.rest, kwargs)

WrapNext ==
    \/ WrapCall
    \/ WStart
    \/ WCheck
    \/ WGet
    \/ WRun
    \/ execute_callback

WrapSpec == Init /\ [][WrapNext]_vars

\* the commands that resolve; a call of run() with any other command raises
\* in the caller and changes nothing of the program's state
Resolvable == {command \in Commands : Resolve(command).ok}

Submit ==
    \E cb \in Callbacks, command \in Resolvable, args \in ArgLists,
       kwargs \in KwargLists :
        Run(cb, command, args, kwargs) /\ UNCHANGED lastWrap

\* run() called with any command, resolvable or not
SubmitAny ==
    \E cb \in Callbacks, command \in Commands, args \in ArgLists,
       kwargs \in KwargLists :
        Run(cb, command, args, kwargs) /\ UNCHANGED lastWrap

\* submitting contexts, the worker thread, the service's event loop and the
\* caller of the stop operation
Next ==
    \/ Submit
    \/ WStart
    \/ WCheck
    \/ WGet
    \/ WRun
    \/ execute_callback
    \/ StopFlag
    \/ StopPut
    \/ StopWait

Spec == Init /\ [][Next]_vars

\* the same without the stop operation, and with the calls of run() whose
\* command does not resolve
ResolveNext ==
    \/ SubmitAny
    \/ WStart
    \/ WCheck
    \/ WGet
    \/ WRun
    \/ execute_callback

ResolveSpec == Init /\ [][ResolveNext]_vars

\* the program under fair scheduling: the worker thread and the thread that
\* called the stop operation keep running (every action terminates: WRun is
\* always enabled in Exec), submitting contexts may or may not act
FairSubmit == nextId <= MaxFairTasks /\ Submit

FairNext ==
    \/ FairSubmit
    \/ WStart
    \/ WCheck
    \/ WGet
    \/ WRun
    \/ execute_callback
    \/ StopFlag
    \/ StopPut
    \/ StopWait

FairSpec ==
    /\ Init
    /\ [][FairNext]_vars
    /\ WF_vars(WStart)
    /\ WF_vars(WCheck)
    /\ WF_vars(WGet)
    /\ WF_vars(WRun)
    /\ WF_vars(StopPut)
    /\ WF_vars(StopWait)

\* submitting contexts that pass Drive values, the worker thread and the
\* service's loop
DriveSubmit ==
    \E cb \in Callbacks, command \in Resolvable, c \in DriveCalls :
        /\ nextId <= MaxDriveTasks
        /\ Run(cb, command, c.args, c.kwargs)
        /\ UNCHANGED lastWrap

DriveNext ==
    \/ DriveSubmit
    \/ WStart
    \/ WCheck
    \/ WGet
    \/ WRun
    \/ execute_callback

DriveSpec == Init /\ [][DriveNext]_vars

\* the program with callers of get_interface_name_list
HandleNext ==
    \/ Submit
    \/ WStart
    \/ WCheck
    \/ WGet
    \/ WRun
    \/ execute_callback
    \/ GetInterfaceCall
    \/ GetInterfaceReturn

HandleSpec == Init /\ [][HandleNext]_vars

\* ---- vocabulary of the properties -----------------------------------------
\* the closed set of domain-failure kinds, class by class
DomainFailureKinds ==
    {"IMException", "ILError", "ValueError", "KeyError", "FileNotFoundError",
     "ConnectionError", "ConnectionResetError"}

Indices(seq) == 1..Len(seq)
EmittedFor(t) == {i \in Indices(emitted) : emitted[i].id = t}
PendingFor(t) == {i \in Indices(pending) : pending[i].id = t}
CalledFor(t) == {i \in Indices(called) : called[i].id = t}
StartsOf(t) == {i \in Indices(started) : started[i] = t}
QueuedIds == {queue[i].id : i \in Indices(queue)} \ {0}

ReturnedNormally(r) == r.outcome.kind = "return"
DomainFailure(r) ==
    r.outcome.kind = "raise" /\ r.outcome.exc \in DomainFailureKinds
FatalFailure(r) ==
    r.outcome.kind = "raise" /\ r.outcome.exc \notin DomainFailureKinds
Result(k) == results[k]
LastResult == results[Len(results)]

\* ---- C1 -------------------------------------------------------------------
\* the events of both signals, taken together, are in submission order
ReportsInSubmissionOrder ==
    \A i, j \in Indices(emitted) : i < j => emitted[i].id < emitted[j].id

\* at the emission of a report no task submitted later has been started
ReportBeforeLaterStart ==
    Len(emitted') > Len(emitted) =>
        \A k \in Indices(started') : started'[k] <= emitted'[Len(emitted')].id

\* C1: reports (task_completed and task_errored together) are emitted in the
\* order the tasks were submitted, and a task's report is emitted before the
\* action of any task submitted after it starts.
C1_FifoReports ==
    [](ReportsInSubmissionOrder) /\ [][ReportBeforeLaterStart]_vars

\* three tasks reported, on both signals
C1_Witness ==
    /\ Len(emitted) = 3
    /\ \E i, j \in Indices(emitted) :
        emitted[i].signal = "task_completed" /\ emitted[j].signal = "task_errored"

\* ---- C2 -------------------------------------------------------------------
\* tasks enqueued before the first call of stop
EnqueuedBeforeStop == 1..(firstStopAt - 1)

ExecutedPrefix == \A k \in Indices(started) : started[k] = k

SuccessReported(k) ==
    LET t == Result(k).id IN
    /\ Cardinality(EmittedFor(t)) = 1
    /\ \A i \in EmittedFor(t) :
        /\ emitted[i].signal = "task_completed"
        /\ emitted[i].report.output = Result(k).outcome.value
        /\ emitted[i].report.exception = None
        /\ \A j \in PendingFor(t) :
            /\ pending[j].report = emitted[i].report
            /\ pending[j].callback = emitted[i].callback
        /\ \A j \in CalledFor(t) :
            /\ called[j].arg = emitted[i].report
            /\ called[j].callback = emitted[i].callback
    /\ Cardinality(PendingFor(t)) + Cardinality(CalledFor(t)) = 1

\* C3: a task whose action returns normally gets exactly one report, on the
\* success channel, with output the returned value and no error, and its
\* callback is invoked exactly once with that report (the one task_completed
\* event is either still queued for the service or has been handed to the
\* callback, never both and never twice).
C3_SuccessReport ==
    \A k \in Indices(results) :
        ReturnedNormally(Result(k)) => SuccessReported(k)

\* scenario A: an action returned "42" and the callback got the report
C3_Witness ==
    \E k \in Indices(results) :
        /\ Result(k).outcome = Returned("42")
        /\ \E j \in CalledFor(Result(k).id) :
            called[j].arg.output = "42" /\ called[j].arg.exception = None

\* ---- C4 -------------------------------------------------------------------
\* a task whose action raised a domain failure has one event, on
\* task_errored, carrying the exception and no output
FailureReported(k) ==
    LET t == Result(k).id IN
    /\ Cardinality(EmittedFor(t)) = 1
    /\ \A i \in EmittedFor(t) :
        /\ emitted[i].signal = "task_errored"
        /\ emitted[i].report.exception = Result(k).outcome.exc
        /\ emitted[i].report.output = None

\* the step in which an action raises a domain failure leaves the worker in
\* its loop, with the flag and the queue as they were
DomainFailureKeepsRunning ==
    (Len(results') > Len(results) /\ DomainFailure(results'[Len(results')])) =>
        /\ wpc' = "Check"
        /\ running' = running
        /\ queue' = queue
        /\ exitCause' = exitCause

\* C4: a task whose action raises a domain failure gets exactly one report,
\* on the error channel, with the failure as error and no output, and the
\* worker stays in its loop, ready for the tasks enqueued after it.
C4_DomainFailure ==
    /\ [](\A k \in Indices(results) :
            DomainFailure(Result(k)) => FailureReported(k))
    /\ [][DomainFailureKeepsRunning]_vars

\* scenario B, and the next task executed after the failure
C4_Witness ==
    /\ Len(results) >= 2
    /\ Result(1).outcome = Raised("ILError")
    /\ \E i \in EmittedFor(1) :
        emitted[i].signal = "task_errored" /\ emitted[i].report.output = None
    /\ ReturnedNormally(Result(2))
    /\ EmittedFor(2) # {}

\* ---- C5 -------------------------------------------------------------------
\* C5: when an action raises a failure outside the domain set, no report is
\* emitted for the task on either channel, the worker's thread has ended and
\* stays ended, and no task after it is executed or reported.
C5_FatalFailure ==
    \A k \in Indices(results) :
        FatalFailure(Result(k)) =>
            /\ EmittedFor(Result(k).id) = {}
            /\ PendingFor(Result(k).id) = {}
            /\ CalledFor(Result(k).id) = {}
            /\ wpc = "Stopped"
            /\ k = Len(results)
            /\ \A j \in Indices(started) : started[j] <= Result(k).id
            /\ \A i \in Indices(emitted) : emitted[i].id < Result(k).id

\* an action raised OSError while a task was queued; another was submitted
\* afterwards; both are still in the queue
C5_Witness ==
    /\ results # <<>>
    /\ LastResult = [id |-> 1, outcome |-> Raised("OSError")]
    /\ wpc = "Stopped"
    /\ {2, 3} \subseteq QueuedIds
    /\ stopCalls = 0

\* ---- C6 -------------------------------------------------------------------
\* C6 as stated: once resolving a symbolic command has failed in Service.run,
\* the worker is lost and no task submitted afterwards is executed.
C6_Original ==
    raisedAt # 0 => \A k \in Indices(started) : started[k] < raisedAt

\* only resolved callables reach the worker, and the worker's thread ends
\* abnormally only by an exception raised inside an action
OnlyCallablesQueued ==
    /\ \A i \in Indices(queue) : queue[i].id # 0 => queue[i].action.callable
    /\ wpc = "Exec" => task.action.callable
    /\ exitCause = "fatal" =>
        LastResult.outcome.kind = "raise" /\ LastResult.outcome.exc \in Raisable

\* the call of Service.run whose command does not resolve raises in the
\* caller and touches neither the queue nor the worker
ResolutionFailureStaysInCaller ==
    raisedAt' # raisedAt =>
        /\ queue' = queue
        /\ nextId' = nextId
        /\ <<running, wpc, task, exitCause>>' = <<running, wpc, task, exitCause>>

\* C6 amended: a failure raised while resolving a symbolic command name in
\* submit is raised to the submitting caller; no task is enqueued and the
\* worker is not affected, so tasks submitted afterwards are still executed.
C6_ResolutionFailsInCaller ==
    [](OnlyCallablesQueued) /\ [][ResolutionFailureStaysInCaller]_vars

\* a command failed to resolve, and a task submitted after that was executed
\* and reported
C6_Witness ==
    /\ raisedAt # 0
    /\ \E i \in Indices(emitted) : emitted[i].id >= raisedAt

\* ---- C7 -------------------------------------------------------------------
\* C7: when the service's stop operation has returned, the worker's thread
\* has ended, and from then on no action is started or in progress whatever
\* is submitted.
C7_StoppedAfterStop ==
    /\ [](stopsReturned > 0 => wpc = "Stopped")
    /\ [][wpc = "Stopped" => (wpc' = "Stopped" /\ started' = started)]_vars

\* stop has returned and a task submitted after it sits in the queue
C7_Witness ==
    /\ stopsReturned > 0
    /\ spc = "none"
    /\ \E t \in QueuedIds : t >= firstStopAt /\ t >= sentinelAt

\* ---- C8 -------------------------------------------------------------------
\* tasks enqueued after the first None
EnqueuedAfterSentinel ==
    IF sentinelAt = 0 THEN {} ELSE sentinelAt..(nextId - 1)

\* C8: a task enqueued after the sentinel is never dequeued or executed.
C8_AfterSentinelNeverRun ==
    \A t \in EnqueuedAfterSentinel : t \in QueuedIds /\ StartsOf(t) = {}

\* stop() raced with the start of run(): line 60 set the flag again after
\* stop() had cleared it, the task queued before the None ran, the worker
\* ended at the None and the task enqueued after it stays in the queue
C8_Witness ==
    /\ stopCalls = 1
    /\ running
    /\ exitCause = "sentinel"
    /\ started = <<1>>
    /\ 2 \in EnqueuedAfterSentinel
    /\ 2 \in QueuedIds

\* ---- C9 -------------------------------------------------------------------
\* C9: the callback of a task is invoked at most once, with one report (the
\* one emitted for the task), and the action of a task is invoked at most
\* once.
C9_AtMostOnce ==
    \A t \in 1..MaxTasks + 1 :
        /\ Cardinality(CalledFor(t)) <= 1
        /\ Cardinality(StartsOf(t)) <= 1
        /\ Cardinality({k \in Indices(results) : Result(k).id = t}) <= 1
        /\ \A j \in CalledFor(t) :
            \E i \in EmittedFor(t) : called[j].arg = emitted[i].report

\* every callback invoked, after failures of other tasks and two stop calls
C9_Witness ==
    /\ Len(called) = 2
    /\ Len(emitted) = 3
    /\ stopCalls = 2

\* ---- C10 ------------------------------------------------------------------
\* C10: a task that fails with a domain failure never has its callback
\* invoked and has no event on the success channel; a task that succeeds has
\* no event on the error channel.
C10_ChannelsDisjoint ==
    \A k \in Indices(results) :
        LET t == Result(k).id IN
        /\ DomainFailure(Result(k)) =>
            /\ CalledFor(t) = {}
            /\ PendingFor(t) = {}
            /\ \A i \in EmittedFor(t) : emitted[i].signal # "task_completed"
            /\ EmittedFor(t) # {}
        /\ ReturnedNormally(Result(k)) =>
            \A i \in EmittedFor(t) : emitted[i].signal # "task_errored"

\* one task failed, one succeeded, all queued events delivered
C10_Witness ==
    /\ Len(results) >= 2
    /\ DomainFailure(Result(1))
    /\ ReturnedNormally(Result(2))
    /\ pending = <<>>
    /\ Len(called) = 1

\* ---- C11 ------------------------------------------------------------------
\* a step of the worker thread
WorkerStep == wpc' # wpc \/ emitted' # emitted \/ started' # started

\* the worker's steps invoke no callback; an invocation consumes the oldest
\* queued task_completed event and leaves the worker where it is
CallbackOnlyFromEventLoop ==
    /\ WorkerStep => called' = called
    /\ called' # called =>
        /\ pending # <<>>
        /\ called'[Len(called')].id = Head(pending).id
        /\ called'[Len(called')].arg = Head(pending).report
        /\ pending' = Tail(pending)
        /\ <<wpc, task, emitted>>' = <<wpc, task, emitted>>

\* C11: a report callback is never invoked on the worker's thread; the worker
\* only emits (callback, report), and callback(report) is performed by the
\* service's context when it consumes that event.
C11_CallbackOnCallerContext ==
    /\ [](\A j \in Indices(called) : called[j].thread = "service")
    /\ [][CallbackOnlyFromEventLoop]_vars

\* a callback has been invoked while the worker is executing the next task
C11_Witness ==
    /\ called # <<>>
    /\ called[1].id = 1
    /\ wpc = "Exec"
    /\ task.id = 2

\* ---- C12 ------------------------------------------------------------------
\* the thread's stop() has returned: the service is at wait(), line 384
WorkerStopReturned == spc = "wait"

\* C12 as stated: where the thread's own stop() has returned, run() has ended
C12_Original == WorkerStopReturned => wpc = "Stopped"

SentinelQueued == \E i \in Indices(queue) : queue[i] = NoneItem

\* C12: the thread's own stop() clears the flag, queues one None and returns
\* without waiting and without touching the worker's position; until run()
\* has ended the None is still in the queue, and it is the service's stop
\* operation, through wait(), that returns only once run() has ended.
C12_JoinIsInServiceStop ==
    /\ [](WorkerStopReturned /\ wpc # "Stopped" => SentinelQueued)
    /\ [][spc = "put" /\ spc' = "wait" =>
            /\ queue' = Append(queue, NoneItem)
            /\ <<wpc, task, started>>' = <<wpc, task, started>>]_vars
    /\ [][WorkerStopReturned /\ spc' = "none" => wpc = "Stopped"]_vars

\* the thread's stop() has returned while a task's action is in progress
C12_Witness ==
    /\ WorkerStopReturned
    /\ wpc = "Exec"
    /\ SentinelQueued

\* ---- C13 ------------------------------------------------------------------
\* a call of run() that enqueues: it puts exactly one task, numbered nextId,
\* at the tail and leaves the worker and the stop operation where they are
AppendsOneTask ==
    nextId' # nextId =>
        /\ nextId' = nextId + 1
        /\ Len(queue') = Len(queue) + 1
        /\ SubSeq(queue', 1, Len(queue)) = queue
        /\ queue'[Len(queue')].id = nextId
        /\ <<running, wpc, task, started, emitted, spc>>'
             = <<running, wpc, task, started, emitted, spc>>

\* C13: run() never blocks the submitting context: it can be taken in every
\* state (up to the bound on the number of tasks), whatever the queue holds
\* and wherever the worker is, and it appends exactly one task to the tail
\* of the queue without waiting for the worker.
C13_SubmitNeverBlocks ==
    /\ [](nextId <= MaxTasks => ENABLED Submit)
    /\ [][AppendsOneTask]_vars

\* two tasks were submitted while the first one is in execution
C13_Witness ==
    /\ wpc = "Exec"
    /\ task.id = 1
    /\ Len(queue) = 2
    /\ queue[1].id = 2
    /\ queue[2].id = 3

\* ---- C14 ------------------------------------------------------------------
Registered(alias) == registry[alias] # 0

RegisteredRunning(alias) ==
    Registered(alias) /\ isRunning(pollers[registry[alias]])

\* a call of stop_poller_thread (every call flips lastStop.flip)
StopPollerStep == lastStop'.flip # lastStop.flip

\* what a call stop_poller_thread(alias) does
StopPollerEffect ==
    StopPollerStep =>
        LET alias == lastStop'.alias IN
        /\ registry' = registry
        /\ lastStop'.raised = None
        /\ IF RegisteredRunning(alias)
           THEN /\ Len(pollers') = Len(pollers)
                /\ \A i \in Indices(pollers) :
                     pollers'[i] = IF i = registry[alias]
                                   THEN PollerStopped(pollers[i])
                                   ELSE pollers[i]
           ELSE pollers' = pollers
        /\ ~(registry'[alias] # 0 /\ isRunning(pollers'[registry'[alias]]))

\* C14: stop_poller_thread(alias) stops a poller only if one is registered
\* for the alias and is running; otherwise the call raises nothing and
\* changes nothing, and after any call the alias has no registered running
\* poller, so that a second call in a row is such a no-op.
C14_StopPollerGuarded ==
    /\ [](lastStop.raised = None)
    /\ [][StopPollerEffect]_vars

\* stop was called for an alias without entry while the other alias has a
\* poller that was stopped by an earlier call
C14_Witness ==
    /\ lastStop.alias = "Right"
    /\ ~Registered("Right")
    /\ Registered("Left")
    /\ pollers[registry["Left"]].state = "stopped"

\* ---- C15 ------------------------------------------------------------------
RunningPollers(alias) ==
    {i \in Indices(pollers) : pollers[i].alias = alias /\ isRunning(pollers[i])}

\* C15 as stated: at most one running poller per alias in every state
C15_AtMostOneLivePerAlias ==
    \A alias \in Aliases : Cardinality(RunningPollers(alias)) <= 1

\* ---- C16 ------------------------------------------------------------------
\* a call of a decorated operation enqueues one task made of the call's parts
\* and runs nothing
WrapEnqueues ==
    lastWrap' # lastWrap \/ nextId' # nextId =>
        /\ nextId' = nextId + 1
        /\ Len(queue') = Len(queue) + 1
        /\ SubSeq(queue', 1, Len(queue)) = queue
        /\ LET t == queue'[Len(queue')] IN
            /\ t.id = nextId
            /\ t.callback = lastWrap'.callback
            /\ t.action = [callable |-> TRUE, name |-> lastWrap'.op]
            /\ t.args = lastWrap'.rest
            /\ t.kwargs = lastWrap'.kwargs
        /\ <<wpc, task, started, results, emitted>>'
             = <<wpc, task, started, results, emitted>>

\* C16: a call of an operation declared with @run_on_thread enqueues exactly
\* one task: its callback is the first positional argument, its action the
\* inner function returned by the decorated method, its args the remaining
\* positional arguments and its kwargs the keyword arguments; the inner
\* function is not run by the caller.
C16_WrapEnqueuesClosure == [][WrapEnqueues]_vars

\* enable_motor(cb, Drive.Left, servo=...) was called while the action of
\* an earlier call is in execution
C16_Witness ==
    /\ wpc = "Exec"
    /\ task.id = 1
    /\ Len(queue) = 1
    /\ queue[1].action.name = "enable_motor"
    /\ queue[1].args = <<"Drive.Left">>
    /\ queue[1].kwargs # NoKwargs

\* ---- C17 ------------------------------------------------------------------
\* a step of the caller of the stop operation
StopStep == spc' # spc

\* the worker leaves an action only with the action's own outcome
ActionRunsToCompletion ==
    (wpc = "Exec" /\ wpc' # "Exec") =>
        /\ Len(results') = Len(results) + 1
        /\ results'[Len(results')].id = task.id

InExecution == {t \in 1..MaxTasks + 1 : StartsOf(t) # {} /\
                   \A k \in Indices(results) : Result(k).id # t}

\* an action is invoked only when no action is in progress and every task
\* dequeued before has its report emitted
StartsAfterPreviousReport ==
    started' # started =>
        /\ InExecution = {}
        /\ \A k \in Indices(started) : EmittedFor(started[k]) # {}
        /\ Len(started') = Len(started) + 1

\* C18: at most one task action is in execution at any time, it is the one
\* of the single worker thread's current task, and an action starts only
\* after the report of the task dequeued before it was emitted.
C18_OneActionAtATime ==
    /\ [](/\ Cardinality(InExecution) <= 1
          /\ InExecution = IF wpc = "Exec" THEN {task.id} ELSE {})
    /\ [][StartsAfterPreviousReport]_vars

\* the third task is in execution, the first two are reported
C18_Witness ==
    /\ InExecution = {3}
    /\ EmittedFor(1) # {}
    /\ EmittedFor(2) # {}

\* ---- C19 ------------------------------------------------------------------
\* the threads that are inside a call on the MotionController object
HandleUsers ==
    (IF wpc = "Exec" THEN {"worker"} ELSE {})
        \cup (IF gpc = "in_call" THEN {"caller"} ELSE {})

\* C19: the MotionController object is used only by the worker thread and
\* never concurrently: no other thread is inside a call on it while the
\* worker executes a task's action.
C19_HandleNeverConcurrent ==
    wpc = "Exec" => HandleUsers \subseteq {"worker"}

\* ---- C20 ------------------------------------------------------------------
\* C20: with terminating actions and a fairly scheduled worker, once stop
\* has been called the worker's thread eventually ends and every call of
\* the stop operation eventually returns, also when stop clears the flag
\* before run() has set it and when the queue is empty.
C20_StopTerminates ==
    /\ (stopCalls > 0) ~> (wpc = "Stopped")
    /\ (spc # "none") ~> (spc = "none")

\* stop was called before run() set the flag and with nothing queued; the
\* thread then took the None from the queue and ended, and stop returned
C20_Witness ==
    /\ stopCalls = 1
    /\ firstStopAt = 1
    /\ running
    /\ exitCause = "sentinel"
    /\ started = <<>>
    /\ stopsReturned = 1

\* ---- C21 ------------------------------------------------------------------
\* d is the first Drive among the positional arguments, None if there is none
IsFirstDriveOf(d, args) ==
    IF \E i \in Indices(args) : args[i] \in Drives
    THEN \E i \in Indices(args) :
            /\ args[i] \in Drives
            /\ args[i] = d
            /\ \A j \in 1..(i - 1) : args[j] \notin Drives
    ELSE d = None

\* the report emitted by a step of the worker is the one of its current task
ReportNamesFirstDrive ==
    emitted' # emitted =>
        LET e == emitted'[Len(emitted')] IN
        /\ e.id = task.id
        /\ IsFirstDriveOf(e.report.drive, task.args)

\* C21: the drive of a report is the first Drive found among the task's
\* positional arguments in order, and None when they hold no Drive; this
\* holds for the reports of both signals (keyword arguments are not looked
\* at).
C21_ReportDriveIsFirstDrive ==
    /\ [][ReportNamesFirstDrive]_vars
    /\ [](\A i \in Indices(emitted) :
            emitted[i].report.drive \in Drives \cup {None})

\* a task with args (7, Drive.Right, Drive.Left) failed with a domain failure
\* and was reported with Drive.Right, after a task without Drive among its
\* positional arguments succeeded and was reported without drive
C21_Witness ==
    /\ Len(emitted) = 2
    /\ emitted[1].signal = "task_completed"
    /\ emitted[1].report.drive = None
    /\ emitted[2].signal = "task_errored"
    /\ emitted[2].report.drive = "Drive.Right"
    /\ task.id = 2
    /\ task.args = <<"7", "Drive.Right", "Drive.Left">>

====
